---- MODULE Spec2Model ----
(***************************************************************************)
(* Model of kashgari.processors.sequence_processor.SequenceProcessor:      *)
(* vocabulary construction (build_vocab_generator), the forward transform  *)
(* (transform) and the inverse transform (inverse_transform).              *)
(*                                                                         *)
(* Python values are encoded as follows.                                   *)
(*   dict        a sequence of <<key, value>> pairs in insertion order     *)
(*   Optional[x] None is <<>>, a given value x is <<x>>                    *)
(*   list        a sequence                                                *)
(*   2-D array   a record with its rows and its shape                      *)
(***************************************************************************)
EXTENDS Integers, Sequences, FiniteSets, TLC

\* ---------------------------------------------------------------- bounds
MaxMinCount == 2
MaxSentLen == 2
MaxCorpus == 2
MaxSampleLen == 2
MaxBatch == 2
MaxSeqLength == 4
MaxPosition == 1

\* ------------------------------------------------------- reserved tokens
token_pad == "PAD"
token_unk == "UNK"
token_bos == "BOS"
token_eos == "EOS"

\* ------------------------------------------------------- Python encodings
None == <<>>

Some(x) == <<x>>

DictKeys(d) == {d[i][1] : i \in DOMAIN d}

DictValues(d) == {d[i][2] : i \in DOMAIN d}

DictHas(d, k) == k \in DictKeys(d)

DictGet(d, k) == d[CHOOSE i \in DOMAIN d : d[i][1] = k][2]

DictGetDefault(d, k, default) == IF DictHas(d, k) THEN DictGet(d, k) ELSE default

DictSet(d, k, v) ==
  IF DictHas(d, k)
    THEN [i \in DOMAIN d |-> IF d[i][1] = k THEN <<k, v>> ELSE d[i]]
    ELSE Append(d, <<k, v>>)

RECURSIVE SeqMax(_)
SeqMax(s) ==
  IF Len(s) = 1 THEN s[1]
  ELSE LET m == SeqMax(Tail(s)) IN IF s[1] >= m THEN s[1] ELSE m

\* ---------------------------------------------------------------- state
\* The first four variables are the constructor's configuration, the next
\* four the processor's fields.  The others record what was observed:
\*   warnings         how often the length warning was logged
\*   corpus           the corpus the last build that ran iterated, if any
\*   call, ret        the last call with its arguments, and what it returned
\*                    or raised
\*   none_before      a transform call without seq_length was made
\*   inferred_before  one of them was made on a non-empty batch
VARIABLES build_in_vocab, min_count, build_vocab_from_labels, allow_unk,
          initial_vocab_dic, vocab2idx, idx2vocab, showed_seq_len_warning,
          warnings, corpus, call, ret, none_before, inferred_before

vars == <<build_in_vocab, min_count, build_vocab_from_labels, allow_unk,
          initial_vocab_dic, vocab2idx, idx2vocab, showed_seq_len_warning,
          warnings, corpus, call, ret, none_before, inferred_before>>

config == <<build_in_vocab, min_count, build_vocab_from_labels, allow_unk>>

\* ----------------------------------------------------------- constructor
InitialVocabDic(mode) ==
  IF mode = "text"
    THEN << <<token_pad, 0>>, <<token_unk, 1>>, <<token_bos, 2>>, <<token_eos, 3>> >>
  ELSE IF mode = "labeling"
    THEN << <<token_pad, 0>> >>
  ELSE << >>

NoCall ==
  [op |-> "init", ran |-> FALSE, same |-> FALSE,
   samples |-> <<>>, seq_length |-> None, max_position |-> None,
   segment |-> FALSE, labels |-> <<>>, lengths |-> None, piped |-> FALSE,
   warned |-> FALSE, first_none |-> FALSE, first_inferred |-> FALSE]

NoRet ==
  [kind |-> "none", rows |-> <<>>, shape |-> <<>>, segment_ids |-> <<>>,
   exc |-> "none"]

Modes == {"text", "labeling", "none"}

Init ==
  /\ build_in_vocab \in Modes
  /\ min_count \in 1..MaxMinCount
  /\ build_vocab_from_labels \in BOOLEAN
  /\ allow_unk = TRUE
  /\ initial_vocab_dic = InitialVocabDic(build_in_vocab)
  /\ vocab2idx = <<>>
  /\ idx2vocab = <<>>
  /\ showed_seq_len_warning = FALSE
  /\ warnings = 0
  /\ corpus = None
  /\ call = NoCall
  /\ ret = NoRet
  /\ none_before = FALSE
  /\ inferred_before = FALSE

\* ------------------------------------------------- build_vocab_generator
\* One sample of the corpus is a pair <<sentence, label>>.
Target(sample, from_labels) == IF from_labels THEN sample[2] ELSE sample[1]

RECURSIVE CountTarget(_, _)
CountTarget(token2count, target) ==
  IF target = <<>> THEN token2count
  ELSE LET token == Head(target)
           count == DictGetDefault(token2count, token, 0)
       IN CountTarget(DictSet(token2count, token, count + 1), Tail(target))

RECURSIVE CountCorpus(_, _, _)
CountCorpus(token2count, generator, from_labels) ==
  IF generator = <<>> THEN token2count
  ELSE CountCorpus(CountTarget(token2count, Target(Head(generator), from_labels)),
                   Tail(generator), from_labels)

RECURSIVE InsertByCountUnstable(_, _)
InsertByCountUnstable(sorted, item) ==
  IF sorted = <<>> THEN <<item>>
  ELSE IF Head(sorted)[2] > item[2]
    THEN <<Head(sorted)>> \o InsertByCountUnstable(Tail(sorted), item)
    ELSE <<item>> \o sorted

\* sorted(..., key=itemgetter(1), reverse=True): stable, descending count.
RECURSIVE InsertByCount(_, _)
InsertByCount(sorted, item) ==
  IF sorted = <<>> THEN <<item>>
  ELSE IF Head(sorted)[2] >= item[2]
    THEN <<Head(sorted)>> \o InsertByCount(Tail(sorted), item)
    ELSE <<item>> \o sorted

RECURSIVE SortByCount(_, _)
SortByCount(sorted, items) ==
  IF items = <<>> THEN sorted
  ELSE SortByCount(InsertByCount(sorted, Head(items)), Tail(items))

AdmitSeeded(dict, token, token_count, minc) == token_count >= minc

AdmitAbove(dict, token, token_count, minc) ==
  ~DictHas(dict, token) /\ token_count > minc

Admit(dict, token, token_count, minc) ==
  ~DictHas(dict, token) /\ token_count >= minc

NextIndexFromOne(dict) == Len(dict) + 1

NextIndex(dict) == Len(dict)

RECURSIVE AddTokens(_, _, _)
AddTokens(dict, token2count, minc) ==
  IF token2count = <<>> THEN dict
  ELSE LET token == Head(token2count)[1]
           token_count == Head(token2count)[2]
       IN AddTokens(IF Admit(dict, token, token_count, minc)
                      THEN DictSet(dict, token, NextIndex(dict))
                      ELSE dict,
                    Tail(token2count), minc)

RECURSIVE ReverseDict(_, _)
ReverseDict(acc, items) ==
  IF items = <<>> THEN acc
  ELSE ReverseDict(DictSet(acc, Head(items)[2], Head(items)[1]), Tail(items))

BuildVocab(seed, generator, from_labels, minc) ==
  AddTokens(seed, SortByCount(<<>>, CountCorpus(<<>>, generator, from_labels)), minc)

NeedsBuildAlways(dict) == TRUE

NeedsBuild(dict) == dict = <<>>

build_vocab_generator(generator) ==
  /\ IF NeedsBuild(vocab2idx)
       THEN LET dict == BuildVocab(initial_vocab_dic, generator,
                                   build_vocab_from_labels, min_count)
            IN /\ vocab2idx' = dict
               /\ initial_vocab_dic' = dict
               /\ idx2vocab' = ReverseDict(<<>>, dict)
               /\ corpus' = Some(generator)
       ELSE UNCHANGED <<vocab2idx, initial_vocab_dic, idx2vocab, corpus>>
  /\ call' = [NoCall EXCEPT !.op = "build_vocab_generator",
                            !.ran = NeedsBuild(vocab2idx),
                            !.same = (corpus = Some(generator))]
  /\ ret' = NoRet
  /\ UNCHANGED <<config, showed_seq_len_warning, warnings, none_before,
                 inferred_before>>

\* --------------------------------------------------------------- transform
\* A 2-D array is returned as its rows together with its shape.
InferredLength(samples, max_position) ==
  LET seq_length == SeqMax([i \in DOMAIN samples |-> Len(samples[i])])
  IN IF max_position # None /\ max_position[1] # 0 /\ seq_length > max_position[1]
       THEN max_position[1]
       ELSE seq_length

Wrap(seq) == <<token_bos>> \o seq \o <<token_eos>>

Numerize(dict, seq, unk_index) ==
  [j \in DOMAIN seq |-> DictGetDefault(dict, seq[j], unk_index)]

NumerizeStrict(dict, seq) == [j \in DOMAIN seq |-> DictGet(dict, seq[j])]

PadRowPre(row, maxlen) ==
  [j \in 1..maxlen |->
     IF Len(row) >= maxlen THEN row[j + Len(row) - maxlen]
     ELSE IF j <= maxlen - Len(row) THEN 0 ELSE row[j - (maxlen - Len(row))]]

\* pad_sequences(x, maxlen, padding='post', truncating='post'), value 0
PadRow(row, maxlen) ==
  [j \in 1..maxlen |-> IF j <= Len(row) THEN row[j] ELSE 0]

pad_sequences(sequences, maxlen) ==
  [i \in DOMAIN sequences |-> PadRow(sequences[i], maxlen)]

Zeros(shape) == [i \in 1..shape[1] |-> [j \in 1..shape[2] |-> 0]]

\* The lookup that raises KeyError while the samples are numerized, if any.
TransformKeyError(dict, samples, unk_allowed) ==
  /\ samples # <<>>
  /\ IF unk_allowed
       THEN ~DictHas(dict, token_unk)
       ELSE \E i \in DOMAIN samples :
              \E j \in DOMAIN Wrap(samples[i]) : ~DictHas(dict, Wrap(samples[i])[j])

Raise(exc) == [NoRet EXCEPT !.kind = "raise", !.exc = exc]

WarnsAlways(seq_length, showed) == seq_length = None

WarnsNow(seq_length, showed) == seq_length = None /\ ~showed

TransformResult(dict, unk_allowed, samples, length, segment) ==
  IF TransformKeyError(dict, samples, unk_allowed)
    THEN Raise("KeyError")
    ELSE LET numerized_samples ==
               [i \in DOMAIN samples |->
                  IF unk_allowed
                    THEN Numerize(dict, Wrap(samples[i]), DictGet(dict, token_unk))
                    ELSE NumerizeStrict(dict, Wrap(samples[i]))]
             token_ids == pad_sequences(numerized_samples, length)
             shape == <<Len(samples), length>>
         IN [NoRet EXCEPT !.kind = IF segment THEN "pair" ELSE "array",
                          !.rows = token_ids,
                          !.shape = shape,
                          !.segment_ids = IF segment THEN Zeros(shape) ELSE <<>>]

transform(samples, seq_length, max_position, segment) ==
  LET thisCall == [NoCall EXCEPT !.op = "transform", !.samples = samples,
                                 !.seq_length = seq_length,
                                 !.max_position = max_position,
                                 !.segment = segment,
                                 !.first_none =
                                    (seq_length = None /\ ~none_before),
                                 !.first_inferred =
                                    (seq_length = None /\ samples # <<>>
                                       /\ ~inferred_before)]
  IN
  /\ none_before' = (none_before \/ seq_length = None)
  /\ inferred_before' =
       (inferred_before \/ (seq_length = None /\ samples # <<>>))
  /\ IF seq_length = None /\ samples = <<>>
       THEN \* max() of an empty list raises ValueError before anything else
            /\ ret' = Raise("ValueError")
            /\ call' = thisCall
            /\ UNCHANGED <<showed_seq_len_warning, warnings>>
       ELSE LET length == IF seq_length = None
                            THEN InferredLength(samples, max_position)
                            ELSE seq_length[1]
                warn == WarnsNow(seq_length, showed_seq_len_warning)
            IN /\ showed_seq_len_warning' =
                    IF warn THEN TRUE ELSE showed_seq_len_warning
               /\ warnings' = IF warn THEN warnings + 1 ELSE warnings
               /\ call' = [thisCall EXCEPT !.warned = warn]
               /\ ret' = TransformResult(vocab2idx, allow_unk, samples, length,
                                         segment)
  /\ UNCHANGED <<config, initial_vocab_dic, vocab2idx, idx2vocab, corpus>>

\* ------------------------------------------------------- inverse_transform
DecodeRow(rev, seq) == [j \in DOMAIN seq |-> DictGet(rev, seq[j])]

SliceFromZeroTo(labels_, n) ==
  SubSeq(labels_, 1, IF n <= Len(labels_) THEN n ELSE Len(labels_))

\* labels_[1:n]
SliceFromOneTo(labels_, n) ==
  SubSeq(labels_, 2, IF n <= Len(labels_) THEN n ELSE Len(labels_))

\* labels_[:-1]
DropLast(labels_) == SubSeq(labels_, 1, Len(labels_) - 1)

CutRow(labels_, lengths, index) ==
  IF lengths # None
    THEN SliceFromOneTo(labels_, lengths[1][index])
    ELSE DropLast(labels_)

\* What stops the loop at row `index`, if anything: a missing index is
\* looked up before lengths[index] is read.
RowError(rev, seq, lengths, index) ==
  IF \E j \in DOMAIN seq : ~DictHas(rev, seq[j]) THEN "KeyError"
  ELSE IF lengths # None /\ index > Len(lengths[1]) THEN "IndexError"
  ELSE "none"

InverseResult(rev, labels, lengths) ==
  LET bad == {i \in DOMAIN labels : RowError(rev, labels[i], lengths, i) # "none"}
  IN IF bad # {}
       THEN LET first == CHOOSE i \in bad : \A k \in bad : i <= k
            IN Raise(RowError(rev, labels[first], lengths, first))
       ELSE [NoRet EXCEPT
               !.kind = "list",
               !.rows = [i \in DOMAIN labels |->
                           CutRow(DecodeRow(rev, labels[i]), lengths, i)]]

inverse_transform(labels, lengths, piped) ==
  /\ ret' = InverseResult(idx2vocab, labels, lengths)
  /\ call' = IF piped
               THEN [call EXCEPT !.op = "inverse_transform", !.labels = labels,
                                 !.lengths = lengths, !.piped = TRUE,
                                 !.warned = FALSE]
               ELSE [NoCall EXCEPT !.op = "inverse_transform", !.labels = labels,
                                   !.lengths = lengths]
  /\ UNCHANGED <<config, initial_vocab_dic, vocab2idx, idx2vocab,
                 showed_seq_len_warning, warnings, corpus, none_before,
                 inferred_before>>

\* ------------------------------------------------------------ input sets
SeqsUpTo(S, n) == UNION {[1..k -> S] : k \in 0..n}

Given(S) == {Some(x) : x \in S}

\* Corpus samples: a sentence over CorpusTokens, each token carrying its tag.
CorpusTokens == {"a", "b", token_unk}

TagOf(token) ==
  IF token = "a" THEN "O" ELSE IF token = "b" THEN "B" ELSE token_pad

Sample(sentence) == <<sentence, [j \in DOMAIN sentence |-> TagOf(sentence[j])]>>

Corpora ==
  SeqsUpTo({Sample(sentence) : sentence \in SeqsUpTo(CorpusTokens, MaxSentLen)},
           MaxCorpus)

FewCorpora == {<<Sample(<<"a", "a">>)>>, <<Sample(<<token_unk, "a">>)>>}

SampleTokens == {"a", "b"}

\* Sequences of "a" that may end with "b".
SampleSeqs ==
  {seq \in SeqsUpTo(SampleTokens, MaxSampleLen) :
     \A j \in 1..(Len(seq) - 1) : seq[j] = "a"}

Batches == SeqsUpTo(SampleSeqs, MaxBatch)

ExplicitArgs ==
  [samples : Batches, seq_length : Given(0..MaxSeqLength),
   max_position : {None}, segment : {FALSE}]
  \cup [samples : {b \in Batches : Len(b) <= 1},
        seq_length : {Some(MaxSeqLength)},
        max_position : {None}, segment : {TRUE}]

InferredArgs ==
  [samples : Batches, seq_length : {None},
   max_position : {None} \cup Given(0..MaxPosition), segment : {FALSE}]

RoundTripArgs ==
  [samples : {<<T>> : T \in SeqsUpTo(SampleTokens \cup {token_pad}, MaxSampleLen)},
   seq_length : Given(1..(MaxSampleLen + 2)),
   max_position : {None}, segment : {FALSE}]

FewTransformArgs ==
  [samples : {<<>>, << <<"a">> >>}, seq_length : {None, Some(2)},
   max_position : {None}, segment : {FALSE}]

FewLabels == {<< <<0>> >>, << <<2, 4>> >>}

\* ---------------------------------------------------------- specification
Build(GenSet) == \E generator \in GenSet : build_vocab_generator(generator)

Transform(ArgSet) ==
  \E a \in ArgSet : transform(a.samples, a.seq_length, a.max_position, a.segment)

Inverse(LabelSet, LengthSet) ==
  \E labels \in LabelSet, lengths \in LengthSet :
    inverse_transform(labels, lengths, FALSE)

\* inverse_transform applied to the array the previous transform returned
InversePiped(LengthSet) ==
  /\ ret.kind \in {"array", "pair"}
  /\ \E lengths \in LengthSet : inverse_transform(ret.rows, lengths, TRUE)

\* Any corpus, a few transform and inverse_transform calls.  A build call
\* that finds the mapping populated is given the corpus it was built from or
\* one of a few others.
Next ==
  \/ NeedsBuild(vocab2idx) /\ Build(Corpora)
  \/ ~NeedsBuild(vocab2idx) /\ Build({corpus[1]} \cup FewCorpora)
  \/ Transform(FewTransformArgs)
  \/ Inverse(FewLabels, {None})

Spec == Init /\ [][Next]_vars

\* A few corpora, any batch with any given width.
NextT ==
  \/ Build(FewCorpora)
  \/ Transform(ExplicitArgs)
  \/ Inverse(FewLabels, {None, Some(<<1>>)})

SpecT == Init /\ [][NextT]_vars

\* A few corpora, any batch without a width, a few calls with one.
NextI ==
  \/ Build(FewCorpora)
  \/ Transform(InferredArgs \cup FewTransformArgs)
  \/ Inverse(FewLabels, {None})

SpecI == Init /\ [][NextI]_vars

\* A few corpora, one-row batches fed back to inverse_transform.
NextR ==
  \/ Build(FewCorpora)
  \/ Transform(RoundTripArgs)
  \/ InversePiped({None} \cup Given({<<n>> : n \in 0..(MaxSampleLen + 3)}))
  \/ Inverse(FewLabels, {None})

SpecR == Init /\ [][NextR]_vars

\* ------------------------------------------------------------ properties
\* The counted stream of the corpus the vocabulary was built from, read
\* directly off the corpus.
Built == corpus # None

RECURSIVE Flatten(_)
Flatten(seqs) == IF seqs = <<>> THEN <<>> ELSE Head(seqs) \o Flatten(Tail(seqs))

CountedStream ==
  Flatten([i \in DOMAIN corpus[1] |->
             IF build_vocab_from_labels THEN corpus[1][i][2] ELSE corpus[1][i][1]])

Occurrences(token) ==
  Cardinality({k \in DOMAIN CountedStream : CountedStream[k] = token})

FirstSeen(token) ==
  CHOOSE k \in DOMAIN CountedStream :
    CountedStream[k] = token /\ \A m \in 1..(k - 1) : CountedStream[m] # token

ReservedTokens == {token_pad, token_unk, token_bos, token_eos}

Seeded ==
  IF build_in_vocab = "text" THEN ReservedTokens
  ELSE IF build_in_vocab = "labeling" THEN {token_pad}
  ELSE {}

AllTokens == ReservedTokens \cup {"a", "b", "O", "B"}

Learned == DictKeys(vocab2idx) \ Seeded

Maps(dict, key, value) ==
  \E i \in DOMAIN dict : dict[i] = <<key, value>>

Returned == ret.kind \in {"array", "pair"}

\* C2: once the token-to-index mapping is non-empty no call changes the
\* forward or the reverse mapping, and a build from the corpus the mapping
\* was built from leaves both as they were.
C2_BuildOnce ==
  [][/\ vocab2idx # <<>> => vocab2idx' = vocab2idx /\ idx2vocab' = idx2vocab
     /\ (call'.op = "build_vocab_generator" /\ call'.same)
          => vocab2idx' = vocab2idx /\ idx2vocab' = idx2vocab]_vars

\* A build call given another corpus found the mapping populated.
C2_Witness ==
  /\ call.op = "build_vocab_generator"
  /\ ~call.ran /\ ~call.same
  /\ Len(vocab2idx) > Cardinality(Seeded)

\* C3: after a build, a 'text' vocabulary maps PAD, UNK, BOS, EOS to 0, 1, 2,
\* 3 and a 'labeling' vocabulary maps PAD to 0, and no learned token holds
\* one of these indices.
C3_ReservedTokens ==
  Built =>
    /\ build_in_vocab = "text" =>
         /\ Maps(vocab2idx, token_pad, 0) /\ Maps(vocab2idx, token_unk, 1)
         /\ Maps(vocab2idx, token_bos, 2) /\ Maps(vocab2idx, token_eos, 3)
    /\ build_in_vocab = "labeling" => Maps(vocab2idx, token_pad, 0)
    /\ \A i \in DOMAIN vocab2idx :
         vocab2idx[i][1] \notin Seeded => vocab2idx[i][2] >= Cardinality(Seeded)
    /\ \A i \in DOMAIN vocab2idx :
         vocab2idx[i][1] \in Seeded => vocab2idx[i][2] < Cardinality(Seeded)

\* The corpus names a reserved token often enough to be admitted, and a
\* token was learned.
C3_Witness ==
  /\ Built /\ build_in_vocab \in {"text", "labeling"}
  /\ \E token \in Seeded : Occurrences(token) >= min_count
  /\ Learned # {}

\* C4: after a build the forward mapping is injective, its indices are
\* exactly 0..|V|-1 and the reverse mapping is its inverse.
C4_DenseBijection ==
  Built =>
    /\ \A i, j \in DOMAIN vocab2idx :
         (vocab2idx[i][1] = vocab2idx[j][1] \/ vocab2idx[i][2] = vocab2idx[j][2])
           => i = j
    /\ DictValues(vocab2idx) = 0..(Len(vocab2idx) - 1)
    /\ Len(idx2vocab) = Len(vocab2idx)
    /\ \A i \in DOMAIN vocab2idx :
         Maps(idx2vocab, vocab2idx[i][2], vocab2idx[i][1])
    /\ \A i \in DOMAIN idx2vocab :
         Maps(vocab2idx, idx2vocab[i][2], idx2vocab[i][1])
    /\ \A i, j \in DOMAIN idx2vocab : idx2vocab[i][1] = idx2vocab[j][1] => i = j

\* Two tokens were learned after the seed.
C4_Witness ==
  Built /\ Cardinality(Learned) >= 2 /\ Seeded # {}

\* C5 as claimed: whatever the token, min_count - 1 occurrences keep it out
\* of the vocabulary and min_count occurrences put it in.
C5_AnyToken ==
  Built =>
    \A token \in AllTokens :
      /\ Occurrences(token) = min_count - 1 => ~DictHas(vocab2idx, token)
      /\ Occurrences(token) = min_count => DictHas(vocab2idx, token)

\* C5: after a build, a token that is not a seeded reserved token of the
\* mode is no key of the vocabulary when it occurs min_count - 1 times in the
\* counted stream and is a key when it occurs min_count times.
C5_Threshold ==
  Built =>
    \A token \in AllTokens \ Seeded :
      /\ Occurrences(token) = min_count - 1 => ~DictHas(vocab2idx, token)
      /\ Occurrences(token) = min_count => DictHas(vocab2idx, token)

\* One token sits exactly on the threshold, another one just below it.
C5_Witness ==
  /\ Built /\ min_count >= 2
  /\ \E t, u \in AllTokens \ Seeded :
       /\ Occurrences(t) = min_count /\ DictHas(vocab2idx, t)
       /\ Occurrences(u) = min_count - 1 /\ ~DictHas(vocab2idx, u)

\* C6: after a build, of two learned tokens the one with the smaller index
\* is the one counted more often or, on equal counts, met first.
C6_LearnedOrder ==
  Built =>
    \A t, u \in Learned :
      t # u =>
        (DictGet(vocab2idx, t) < DictGet(vocab2idx, u)
           <=> \/ Occurrences(t) > Occurrences(u)
               \/ /\ Occurrences(t) = Occurrences(u)
                  /\ FirstSeen(t) < FirstSeen(u))

\* Three learned tokens: the last one met is the most frequent, the other
\* two are tied.
C6_Witness ==
  /\ Built
  /\ \E t, u, w \in Learned :
       /\ Occurrences(w) > Occurrences(t) /\ Occurrences(t) = Occurrences(u)
       /\ FirstSeen(t) < FirstSeen(u) /\ FirstSeen(u) < FirstSeen(w)
       /\ DictGet(vocab2idx, w) < DictGet(vocab2idx, t)
       /\ DictGet(vocab2idx, t) < DictGet(vocab2idx, u)

\* inverse_transform was given the array transform returned for the one
\* sequence T of vocabulary tokens at width Len(T) + 2, with lengths
\* [Len(T) + extra].
RoundTripCall(extra) ==
  /\ call.op = "inverse_transform" /\ call.piped
  /\ build_in_vocab = "text"
  /\ Len(call.samples) = 1
  /\ \A j \in DOMAIN call.samples[1] : DictHas(vocab2idx, call.samples[1][j])
  /\ call.seq_length = Some(Len(call.samples[1]) + 2)
  /\ call.lengths = Some(<<Len(call.samples[1]) + extra>>)

\* C1 as claimed: with lengths = [len(T) + 2] the round trip returns T.
C1_LengthPlusTwo ==
  RoundTripCall(2) => ret.kind = "list" /\ ret.rows = call.samples

\* C1: for a built 'text' processor and a sequence T of vocabulary tokens,
\* inverse_transform(transform([T], seq_length=len(T)+2), lengths=[len(T)+1])
\* returns [T]: no BOS, no EOS, no PAD.
C1_RoundTrip ==
  RoundTripCall(1) => ret.kind = "list" /\ ret.rows = call.samples

\* A non-empty T went round.
C1_Witness ==
  RoundTripCall(1) /\ Len(call.samples[1]) = MaxSampleLen /\ ret.rows = call.samples

\* The vocabulary index the claims expect at a position holding `token`.
HoldsIndexOf(token, index) ==
  IF DictHas(vocab2idx, token)
    THEN Maps(vocab2idx, token, index)
    ELSE Maps(vocab2idx, token_unk, index)

\* C7: with allow_unk set, whatever the mode, transform on a batch holding a
\* token absent from the built vocabulary returns, and every position of
\* such a token holds the UNK index.
C7_UnknownFallback ==
  (/\ call.op = "transform" /\ allow_unk /\ Built
   /\ \E i \in DOMAIN call.samples : \E j \in DOMAIN call.samples[i] :
        ~DictHas(vocab2idx, call.samples[i][j]))
    => /\ Returned
       /\ \A i \in DOMAIN call.samples : \A j \in DOMAIN call.samples[i] :
            (~DictHas(vocab2idx, call.samples[i][j]) /\ j + 1 <= ret.shape[2])
              => Maps(vocab2idx, token_unk, ret.rows[i][j + 1])

ExplicitCall == call.op = "transform" /\ call.seq_length # None /\ Returned

\* Row i is the wrapped sequence cut at the width; `Filler` says what the
\* positions after it hold.
RowsAre(Filler(_)) ==
  /\ Len(ret.rows) = Len(call.samples)
  /\ ret.shape = <<Len(call.samples), call.seq_length[1]>>
  /\ \A i \in DOMAIN call.samples :
       /\ Len(ret.rows[i]) = call.seq_length[1]
       /\ \A j \in 1..call.seq_length[1] :
            IF j <= Len(call.samples[i]) + 2
              THEN HoldsIndexOf(Wrap(call.samples[i])[j], ret.rows[i][j])
              ELSE Filler(ret.rows[i][j])

IsPadIndex(index) == Maps(vocab2idx, token_pad, index)

IsZero(index) == index = 0

LongestWrapped ==
  CHOOSE n \in {Len(call.samples[i]) + 2 : i \in DOMAIN call.samples} :
    \A i \in DOMAIN call.samples : Len(call.samples[i]) + 2 <= n

\* C9: without seq_length the width of the returned array is the longest
\* wrapped length, max len(s_i) + 2, or max_position when that is smaller;
\* when nothing is clamped the longest row ends with the EOS index.
C9_InferredWidth ==
  (call.op = "transform" /\ call.seq_length = None /\ call.samples # <<>>
     /\ Returned)
    => IF call.max_position # None /\ LongestWrapped > call.max_position[1]
         THEN ret.shape[2] = call.max_position[1]
         ELSE /\ ret.shape[2] = LongestWrapped
              /\ \A i \in DOMAIN call.samples :
                   Len(call.samples[i]) + 2 = LongestWrapped
                     => Maps(vocab2idx, token_eos, ret.rows[i][LongestWrapped])

\* C10 as claimed: the warning is emitted exactly on the first transform
\* call made without seq_length.
C10_FirstCallWithoutLength ==
  /\ warnings <= 1
  /\ call.op = "transform" => (call.warned <=> call.first_none)

\* C10: the warning is emitted at most once, exactly on the first transform
\* call made without seq_length on a non-empty batch; a call with a
\* seq_length neither emits it nor sets the flag; no call resets the flag.
C10_OneTimeWarning ==
  [][/\ warnings' <= 1
     /\ warnings' \in {warnings, warnings + 1}
     /\ warnings' = warnings + 1
          <=> (call'.op = "transform" /\ call'.first_inferred)
     /\ call'.op = "transform" => (call'.warned <=> call'.first_inferred)
     /\ (call'.op = "transform" /\ call'.seq_length # None)
          => /\ warnings' = warnings
             /\ showed_seq_len_warning' = showed_seq_len_warning
     /\ showed_seq_len_warning => showed_seq_len_warning']_vars

\* A later call without seq_length stayed silent.
C10_Witness ==
  /\ call.op = "transform" /\ call.seq_length = None /\ call.samples # <<>>
  /\ ~call.warned /\ warnings = 1 /\ showed_seq_len_warning

====
